---- MODULE Spec2Model ----
(***************************************************************************)
(* SCSI target command engine of os/various/lib_scsi.c.                    *)
(*                                                                         *)
(* A uint8_t is a number in 0..255.  A uint32_t is the tuple of its four   *)
(* bytes, least significant first (the memory image on the little-endian   *)
(* hosts the library is built for), because 2^32 does not fit the model    *)
(* checker's integers; the arithmetic on it is done byte by byte and keeps *)
(* the 32-bit width.  A uint16_t is a number in 0..65535.                  *)
(***************************************************************************)
EXTENDS Integers, Sequences, FiniteSets, TLC

(***************************************************************************)
(* Bounds of the model.                                                    *)
(***************************************************************************)
\* largest block count carried by an enumerated READ(10)/WRITE(10) command
MaxBlkCnt == 2
\* largest device block count among the small enumerated geometries
MaxBlkNum == 2
\* largest number of bytes the transport is short by in a wrapper transmit
MaxShort == 2
\* block count of the one larger geometry: a 512-byte, 1000-block device
ExampleBlkNum == 1000

(***************************************************************************)
(* Constants of lib_scsi.h.                                                *)
(***************************************************************************)
SCSI_CMD_TEST_UNIT_READY == 0
SCSI_CMD_REQUEST_SENSE == 3
SCSI_CMD_INQUIRY == 18
SCSI_CMD_MODE_SENSE_6 == 26
SCSI_CMD_START_STOP_UNIT == 27
SCSI_CMD_PREVENT_ALLOW_MEDIUM_REMOVAL == 30
SCSI_CMD_READ_CAPACITY_10 == 37
SCSI_CMD_READ_10 == 40
SCSI_CMD_WRITE_10 == 42

SCSI_SENSE_KEY_GOOD == 0
SCSI_SENSE_KEY_ILLEGAL_REQUEST == 5
SCSI_ASENSE_NO_ADDITIONAL_INFORMATION == 0
SCSI_ASENSE_INVALID_COMMAND == 32
SCSI_ASENSE_LBA_OUT_OF_RANGE == 33
SCSI_ASENSE_INVALID_FIELD_IN_CDB == 36
SCSI_ASENSEQ_NO_QUALIFIER == 0

SCSI_SUCCESS == FALSE
SCSI_FAILED == TRUE

\* scsi_target_state_t
SCSI_TRGT_STOP == "SCSI_TRGT_STOP"
SCSI_TRGT_READY == "SCSI_TRGT_READY"

\* sizeof(scsi_sense_response_t), sizeof(scsi_inquiry_response_t),
\* sizeof(scsi_mode_sense6_response_t), sizeof(scsi_read_capacity10_response_t)
SenseSize == 18
InquirySize == 36
ModeSenseSize == 4
CapacitySize == 8

\* a command buffer holds the 10 bytes of the READ(10)/WRITE(10) form
CmdLen == 10

\* the configuration pointer: << >> is NULL, << c >> points to the configuration c
NULL == << >>

(***************************************************************************)
(* Bytes and 32-bit words.                                                 *)
(***************************************************************************)
Byte == 0..255

\* x & y and x | y on natural numbers, bit by bit; the first cases are the
\* byte masks the library uses, where the result is immediate
RECURSIVE BitAnd(_, _)
BitAnd(x, y) ==
  IF x = 0 \/ y = 0 THEN 0
  ELSE IF y = 255 THEN x % 256
  ELSE ((x % 2) * (y % 2)) + 2 * BitAnd(x \div 2, y \div 2)

RECURSIVE BitOr(_, _)
BitOr(x, y) ==
  IF x = 0 THEN y
  ELSE IF y = 0 THEN x
  ELSE IF x < 256 /\ y % 256 = 0 THEN x + y
  ELSE (IF (x % 2) + (y % 2) > 0 THEN 1 ELSE 0) + 2 * BitOr(x \div 2, y \div 2)

\* the uint32_t holding a small number
U32(n) ==
  << n % 256, (n \div 256) % 256, (n \div 65536) % 256, (n \div 16777216) % 256 >>

\* val << 8, val >> 8, val << 16, val >> 16 on a uint32_t
Shl8(v) == << 0, v[1], v[2], v[3] >>
Shr8(v) == << v[2], v[3], v[4], 0 >>
Shl16(v) == << 0, 0, v[1], v[2] >>
Shr16(v) == << v[3], v[4], 0, 0 >>
And32(v, w) ==
  << BitAnd(v[1], w[1]), BitAnd(v[2], w[2]), BitAnd(v[3], w[3]), BitAnd(v[4], w[4]) >>
Or32(v, w) ==
  << BitOr(v[1], w[1]), BitOr(v[2], w[2]), BitOr(v[3], w[3]), BitOr(v[4], w[4]) >>

\* a + b with the carry out of bit 31 kept as a fifth byte
AddWide(a, b) ==
  LET s1 == a[1] + b[1]
      s2 == a[2] + b[2] + (s1 \div 256)
      s3 == a[3] + b[3] + (s2 \div 256)
      s4 == a[4] + b[4] + (s3 \div 256)
  IN  << s1 % 256, s2 % 256, s3 % 256, s4 % 256, s4 \div 256 >>

\* a + b in uint32_t arithmetic: the carry out of bit 31 is lost
Add32(a, b) == SubSeq(AddWide(a, b), 1, 4)

\* a > b for two numbers given by the same number of bytes
RECURSIVE GtBytes(_, _, _)
GtBytes(a, b, n) ==
  IF n = 0 THEN FALSE
  ELSE IF a[n] # b[n] THEN a[n] > b[n]
  ELSE GtBytes(a, b, n - 1)

Gt32(a, b) == GtBytes(a, b, 4)

(***************************************************************************)
(* Byte order codec.                                                       *)
(***************************************************************************)
\* mutant: the bytes are swapped within each half, the halves stay in place
swap_uint32_within_halves(val) ==
  Or32(And32(Shl8(val), << 0, 255, 0, 255 >>),
       And32(Shr8(val), << 255, 0, 255, 0 >>))

swap_uint32(val) ==
  LET v == Or32(And32(Shl8(val), << 0, 255, 0, 255 >>),
                And32(Shr8(val), << 255, 0, 255, 0 >>))
  IN  Or32(And32(Shl16(v), << 0, 0, 255, 255 >>),
           And32(Shr16(v), << 255, 255, 0, 0 >>))

swap_uint16(val) ==
  BitOr(BitAnd(val \div 256, 255), BitAnd(val, 255) * 256)

\* memcpy of cmd[2..5] and cmd[7..8] into host integers, then the swaps
decode_data_request(cmd) ==
  LET lba == << cmd[2], cmd[3], cmd[4], cmd[5] >>
      blk == cmd[7] + 256 * cmd[8]
  IN  [first_lba |-> swap_uint32(lba), blk_cnt |-> swap_uint16(blk)]

(***************************************************************************)
(* Configurations: a block device with its geometry and write-protect      *)
(* flag, and the identification payload.  The transport and the transfer   *)
(* buffer are the environment: what they return is chosen per call.        *)
(***************************************************************************)
BlkSize == 512

Devices ==
  { [blk_size |-> BlkSize, blk_num |-> n, wp |-> w] :
      n \in 1..MaxBlkNum, w \in BOOLEAN } \cup
  { [blk_size |-> BlkSize, blk_num |-> ExampleBlkNum, wp |-> FALSE] }

Configs ==
  { [blkdev |-> d,
     inquiry_response |-> IF d.wp THEN "inquiry_ro" ELSE "inquiry_rw"] :
      d \in Devices }

\* blkGetInfo and blkIsWriteProtected of the bound device
blkGetInfo(blkdev) == [blk_size |-> blkdev.blk_size, blk_num |-> blkdev.blk_num]
blkIsWriteProtected(blkdev) == blkdev.wp

(***************************************************************************)
(* Outcome of a handler: the engine after it, the value it returns, the    *)
(* calls it made on the transport and the block device, and whether it     *)
(* went through the NULL configuration pointer of a stopped engine.        *)
(***************************************************************************)
Call(fn, arg, len, ret) == [fn |-> fn, arg |-> arg, len |-> len, ret |-> ret]

Outcome(s, ret, calls) == [s |-> s, ret |-> ret, calls |-> calls, ub |-> FALSE]

NullDeref(s) == [s |-> s, ret |-> SCSI_FAILED, calls |-> << >>, ub |-> TRUE]

(***************************************************************************)
(* Sense state.                                                            *)
(***************************************************************************)
ZeroSense == [i \in 0..(SenseSize - 1) |-> 0]

\* mutant: the additional sense code is stored one byte early
set_sense_code_at_11(s, key, code, qual) ==
  [s EXCEPT !.sense = [ZeroSense EXCEPT ![0] = 112, ![2] = key, ![7] = 8,
                                        ![11] = code, ![13] = qual]]

set_sense(s, key, code, qual) ==
  [s EXCEPT !.sense = [ZeroSense EXCEPT ![0] = 112, ![2] = key, ![7] = 8,
                                        ![12] = code, ![13] = qual]]

set_sense_ok(s) ==
  set_sense(s, SCSI_SENSE_KEY_GOOD, SCSI_ASENSE_NO_ADDITIONAL_INFORMATION,
            SCSI_ASENSEQ_NO_QUALIFIER)

(***************************************************************************)
(* Transport wrapper.  sent is what trp->transmit returns, at most len.    *)
(***************************************************************************)
\* mutant: the residue is stored on every call, also when it is zero
transmit_data_always_stores(s, data, len, sent) ==
  IF s.config = NULL THEN NullDeref(s)
  ELSE LET residue == len - sent
       IN  Outcome([s EXCEPT !.residue = residue],
                   IF residue > 0 THEN SCSI_FAILED ELSE SCSI_SUCCESS,
                   << Call("transmit", data, len, sent) >>)

transmit_data(s, data, len, sent) ==
  IF s.config = NULL THEN NullDeref(s)
  ELSE LET residue == len - sent
       IN  IF residue > 0
           THEN Outcome([s EXCEPT !.residue = residue], SCSI_FAILED,
                        << Call("transmit", data, len, sent) >>)
           ELSE Outcome(s, SCSI_SUCCESS,
                        << Call("transmit", data, len, sent) >>)

(***************************************************************************)
(* Command handlers.                                                       *)
(***************************************************************************)
\* mutant: the failure is returned without a sense condition
cmd_unhandled_no_sense(s, cmd) == Outcome(s, SCSI_FAILED, << >>)

cmd_unhandled(s, cmd) ==
  Outcome(set_sense(s, SCSI_SENSE_KEY_ILLEGAL_REQUEST,
                    SCSI_ASENSE_INVALID_COMMAND, SCSI_ASENSEQ_NO_QUALIFIER),
          SCSI_FAILED, << >>)

cmd_ignored(s, cmd) == Outcome(set_sense_ok(s), SCSI_SUCCESS, << >>)

\* mutant: only the EVPD bit of byte 1 is examined
inquiry_evpd_only(s, cmd, short) ==
  IF BitAnd(cmd[1], 1) # 0 \/ cmd[2] # 0
  THEN Outcome(set_sense(s, SCSI_SENSE_KEY_ILLEGAL_REQUEST,
                         SCSI_ASENSE_INVALID_FIELD_IN_CDB,
                         SCSI_ASENSEQ_NO_QUALIFIER),
               SCSI_FAILED, << >>)
  ELSE IF s.config = NULL THEN NullDeref(s)
  ELSE transmit_data(s, s.config[1].inquiry_response, InquirySize,
                     InquirySize - short)

inquiry(s, cmd, short) ==
  IF BitAnd(cmd[1], 3) # 0 \/ cmd[2] # 0
  THEN Outcome(set_sense(s, SCSI_SENSE_KEY_ILLEGAL_REQUEST,
                         SCSI_ASENSE_INVALID_FIELD_IN_CDB,
                         SCSI_ASENSEQ_NO_QUALIFIER),
               SCSI_FAILED, << >>)
  ELSE IF s.config = NULL THEN NullDeref(s)
  ELSE transmit_data(s, s.config[1].inquiry_response, InquirySize,
                     InquirySize - short)

\* tmp is a uint32_t of which memcpy sets three bytes: its fourth byte keeps
\* whatever the stack held (garbage)
request_sense(s, cmd, garbage, short) ==
  LET tmp == << cmd[1], cmd[2], cmd[3], garbage >>
  IN  IF tmp # << 0, 0, 0, 0 >> \/ cmd[4] # SenseSize
      THEN Outcome(set_sense(s, SCSI_SENSE_KEY_ILLEGAL_REQUEST,
                             SCSI_ASENSE_INVALID_FIELD_IN_CDB,
                             SCSI_ASENSEQ_NO_QUALIFIER),
                   SCSI_FAILED, << >>)
      ELSE transmit_data(s, s.sense, SenseSize, SenseSize - short)

\* mutant: the write-protect flag is put in bit 0 of the device-specific byte
mode_sense6_wp_bit0(s, cmd, short) ==
  IF s.config = NULL THEN NullDeref(s)
  ELSE LET ms == << ModeSenseSize - 1, 0,
                    IF blkIsWriteProtected(s.config[1].blkdev) THEN 1 ELSE 0,
                    0 >>
           s1 == [s EXCEPT !.mode_sense = ms]
       IN  transmit_data(s1, s1.mode_sense, ModeSenseSize,
                         ModeSenseSize - short)

mode_sense6(s, cmd, short) ==
  IF s.config = NULL THEN NullDeref(s)
  ELSE LET ms == << ModeSenseSize - 1, 0,
                    IF blkIsWriteProtected(s.config[1].blkdev) THEN 128 ELSE 0,
                    0 >>
           s1 == [s EXCEPT !.mode_sense = ms]
       IN  transmit_data(s1, s1.mode_sense, ModeSenseSize,
                         ModeSenseSize - short)

\* memory image of a scsi_read_capacity10_response_t: the last block
\* address, then the block size
capacity_response(last_block_addr, block_size) ==
  last_block_addr \o block_size

\* mutant: the block count is reported in place of the last block address
read_capacity10_reports_count(s, cmd, short) ==
  IF s.config = NULL THEN NullDeref(s)
  ELSE LET bdi == blkGetInfo(s.config[1].blkdev)
           block_size == swap_uint32(U32(bdi.blk_size))
           last_block_addr == swap_uint32(U32(bdi.blk_num))
       IN  transmit_data(s, capacity_response(last_block_addr, block_size),
                         CapacitySize, CapacitySize - short)

\* bdi.blk_num - 1 in uint32_t arithmetic is bdi.blk_num + 0xFFFFFFFF
read_capacity10(s, cmd, short) ==
  IF s.config = NULL THEN NullDeref(s)
  ELSE LET bdi == blkGetInfo(s.config[1].blkdev)
           block_size == swap_uint32(U32(bdi.blk_size))
           last_block_addr ==
             swap_uint32(Add32(U32(bdi.blk_num), << 255, 255, 255, 255 >>))
       IN  transmit_data(s, capacity_response(last_block_addr, block_size),
                         CapacitySize, CapacitySize - short)

(***************************************************************************)
(* Data transfer.  blk[i + 1] is what the block device and the transport   *)
(* do in iteration i: dev is the status blkRead/blkWrite returns, short    *)
(* the number of bytes the transport is short of the block size.           *)
(***************************************************************************)
data_overflow(s, req) ==
  LET bdi == blkGetInfo(s.config[1].blkdev)
  IN  IF Gt32(Add32(req.first_lba, U32(req.blk_cnt)), U32(bdi.blk_num))
      THEN [s |-> set_sense(s, SCSI_SENSE_KEY_ILLEGAL_REQUEST,
                            SCSI_ASENSE_LBA_OUT_OF_RANGE,
                            SCSI_ASENSEQ_NO_QUALIFIER),
            overflow |-> TRUE]
      ELSE [s |-> s, overflow |-> FALSE]

\* mutant: a write stores the buffer before it has been received
transfer_block_write_first(cmd, req, bs, blk, i) ==
  IF cmd[0] = SCSI_CMD_READ_10
  THEN << Call("blkRead", Add32(req.first_lba, U32(i)), 1, blk[i + 1].dev),
          Call("transmit", "blkbuf", bs, bs - blk[i + 1].short) >>
  ELSE << Call("blkWrite", Add32(req.first_lba, U32(i)), 1, blk[i + 1].dev),
          Call("receive", "blkbuf", bs, bs - blk[i + 1].short) >>

\* one iteration of the loop: the two calls it makes, in order
transfer_block(cmd, req, bs, blk, i) ==
  IF cmd[0] = SCSI_CMD_READ_10
  THEN << Call("blkRead", Add32(req.first_lba, U32(i)), 1, blk[i + 1].dev),
          Call("transmit", "blkbuf", bs, bs - blk[i + 1].short) >>
  ELSE << Call("receive", "blkbuf", bs, bs - blk[i + 1].short),
          Call("blkWrite", Add32(req.first_lba, U32(i)), 1, blk[i + 1].dev) >>

\* mutant: the loop ends after a block the device or the transport failed on
RECURSIVE transfer_loop_stops_on_error(_, _, _, _, _)
transfer_loop_stops_on_error(cmd, req, bs, blk, i) ==
  IF i < req.blk_cnt
  THEN transfer_block(cmd, req, bs, blk, i)
         \o (IF blk[i + 1].dev \/ blk[i + 1].short > 0
             THEN << >>
             ELSE transfer_loop_stops_on_error(cmd, req, bs, blk, i + 1))
  ELSE << >>

\* the calls of iterations i .. blk_cnt - 1
RECURSIVE transfer_loop(_, _, _, _, _)
transfer_loop(cmd, req, bs, blk, i) ==
  IF i < req.blk_cnt
  THEN transfer_block(cmd, req, bs, blk, i)
         \o transfer_loop(cmd, req, bs, blk, i + 1)
  ELSE << >>

\* mutant: the verdict of data_overflow does not stop the transfer
data_read_write10_transfers_anyway(s, cmd, blk) ==
  LET req == decode_data_request(cmd)
  IN  IF s.config = NULL THEN NullDeref(s)
      ELSE LET ov == data_overflow(s, req)
               bdi == blkGetInfo(s.config[1].blkdev)
           IN  Outcome(ov.s, IF ov.overflow THEN SCSI_FAILED ELSE SCSI_SUCCESS,
                       transfer_loop(cmd, [req EXCEPT !.blk_cnt = Len(blk)],
                                     bdi.blk_size, blk, 0))

data_read_write10(s, cmd, blk) ==
  LET req == decode_data_request(cmd)
  IN  IF s.config = NULL THEN NullDeref(s)
      ELSE LET ov == data_overflow(s, req)
           IN  IF ov.overflow
               THEN Outcome(ov.s, SCSI_FAILED, << >>)
               ELSE LET bdi == blkGetInfo(s.config[1].blkdev)
                        bs == bdi.blk_size
                    IN  Outcome(ov.s, SCSI_SUCCESS,
                                transfer_loop(cmd, req, bs, blk, 0))

(***************************************************************************)
(* Dispatcher.  env holds what the environment does during the call:       *)
(* garbage (the uninitialized byte of request_sense), short (the bytes the *)
(* transport is short by in the wrapper) and blk (the per-block outcomes). *)
(***************************************************************************)
\* mutant: a stopped engine rejects every command as unhandled
scsiExecCmd_checks_state(s, cmd, env) ==
  LET s0 == set_sense_ok(s)
  IN  IF s.state = SCSI_TRGT_STOP
      THEN cmd_unhandled(s0, cmd)
      ELSE CASE cmd[0] = SCSI_CMD_INQUIRY -> inquiry(s0, cmd, env.short)
             [] cmd[0] = SCSI_CMD_REQUEST_SENSE ->
                  request_sense(s0, cmd, env.garbage, env.short)
             [] cmd[0] = SCSI_CMD_READ_CAPACITY_10 ->
                  read_capacity10(s0, cmd, env.short)
             [] cmd[0] = SCSI_CMD_READ_10 -> data_read_write10(s0, cmd, env.blk)
             [] cmd[0] = SCSI_CMD_WRITE_10 -> data_read_write10(s0, cmd, env.blk)
             [] cmd[0] = SCSI_CMD_TEST_UNIT_READY -> cmd_ignored(s0, cmd)
             [] cmd[0] = SCSI_CMD_PREVENT_ALLOW_MEDIUM_REMOVAL ->
                  cmd_ignored(s0, cmd)
             [] cmd[0] = SCSI_CMD_MODE_SENSE_6 ->
                  mode_sense6(s0, cmd, env.short)
             [] OTHER -> cmd_unhandled(s0, cmd)

\* mutant: the sense is not reset on entry
scsiExecCmd_no_reset(s, cmd, env) ==
  LET s0 == s
  IN  CASE cmd[0] = SCSI_CMD_INQUIRY -> inquiry(s0, cmd, env.short)
        [] cmd[0] = SCSI_CMD_REQUEST_SENSE ->
             request_sense(s0, cmd, env.garbage, env.short)
        [] cmd[0] = SCSI_CMD_READ_CAPACITY_10 ->
             read_capacity10(s0, cmd, env.short)
        [] cmd[0] = SCSI_CMD_READ_10 -> data_read_write10(s0, cmd, env.blk)
        [] cmd[0] = SCSI_CMD_WRITE_10 -> data_read_write10(s0, cmd, env.blk)
        [] cmd[0] = SCSI_CMD_TEST_UNIT_READY -> cmd_ignored(s0, cmd)
        [] cmd[0] = SCSI_CMD_PREVENT_ALLOW_MEDIUM_REMOVAL ->
             cmd_ignored(s0, cmd)
        [] cmd[0] = SCSI_CMD_MODE_SENSE_6 -> mode_sense6(s0, cmd, env.short)
        [] OTHER -> cmd_unhandled(s0, cmd)

scsiExecCmd(s, cmd, env) ==
  LET s0 == set_sense_ok(s)
  IN  CASE cmd[0] = SCSI_CMD_INQUIRY -> inquiry(s0, cmd, env.short)
        [] cmd[0] = SCSI_CMD_REQUEST_SENSE ->
             request_sense(s0, cmd, env.garbage, env.short)
        [] cmd[0] = SCSI_CMD_READ_CAPACITY_10 ->
             read_capacity10(s0, cmd, env.short)
        [] cmd[0] = SCSI_CMD_READ_10 -> data_read_write10(s0, cmd, env.blk)
        [] cmd[0] = SCSI_CMD_WRITE_10 -> data_read_write10(s0, cmd, env.blk)
        [] cmd[0] = SCSI_CMD_TEST_UNIT_READY -> cmd_ignored(s0, cmd)
        [] cmd[0] = SCSI_CMD_PREVENT_ALLOW_MEDIUM_REMOVAL ->
             cmd_ignored(s0, cmd)
        [] cmd[0] = SCSI_CMD_MODE_SENSE_6 -> mode_sense6(s0, cmd, env.short)
        [] OTHER -> cmd_unhandled(s0, cmd)

(***************************************************************************)
(* Lifecycle.                                                              *)
(***************************************************************************)
\* mode_sense is not set by scsiObjectInit: it is written by mode_sense6
\* before it is read, so the value it starts with is never observed
scsiObjectInit ==
  [config |-> NULL, residue |-> 0, sense |-> ZeroSense,
   state |-> SCSI_TRGT_STOP, mode_sense |-> << 0, 0, 0, 0 >>]

\* mutant: an engine that is already started keeps its configuration
scsiStart_keeps_first(s, config) ==
  IF s.config = NULL
  THEN [s EXCEPT !.config = << config >>, !.state = SCSI_TRGT_READY]
  ELSE s

scsiStart(s, config) ==
  [s EXCEPT !.config = << config >>, !.state = SCSI_TRGT_READY]

\* mutant: stopping the engine also clears the residue
scsiStop_clears_residue(s) ==
  [s EXCEPT !.config = NULL, !.state = SCSI_TRGT_STOP, !.residue = 0]

scsiStop(s) == [s EXCEPT !.config = NULL, !.state = SCSI_TRGT_STOP]

scsiResidue(s) == s.residue

(***************************************************************************)
(* Command buffers and environment behaviours the model enumerates.        *)
(***************************************************************************)
Opcodes ==
  { SCSI_CMD_INQUIRY, SCSI_CMD_REQUEST_SENSE, SCSI_CMD_READ_CAPACITY_10,
    SCSI_CMD_READ_10, SCSI_CMD_WRITE_10, SCSI_CMD_TEST_UNIT_READY,
    SCSI_CMD_PREVENT_ALLOW_MEDIUM_REMOVAL, SCSI_CMD_MODE_SENSE_6 }

\* two opcodes the dispatcher has no case for
OtherOpcodes == { SCSI_CMD_START_STOP_UNIT, 255 }

\* bytes 1..4 of the commands without a block range
CtrlFields ==
  { << 0, 0, 0, 0 >>, << 0, 0, 0, SenseSize >>, << 0, 0, 0, SenseSize - 1 >>,
    << 0, 0, 0, InquirySize >>, << 1, 0, 0, SenseSize >>,
    << 2, 0, 0, InquirySize >>, << 4, 0, 0, SenseSize >>,
    << 0, 1, 0, SenseSize >>, << 0, 0, 1, SenseSize >> }

CtrlCmd(opc, f) ==
  [i \in 0..(CmdLen - 1) |->
     IF i = 0 THEN opc ELSE IF i \in 1..4 THEN f[i] ELSE 0]

\* the READ(10)/WRITE(10) buffer for an address (a uint32_t) and a count:
\* address at bytes 2..5 and count at bytes 7..8, most significant byte first
DataCmd(opc, lba, cnt) ==
  [i \in 0..(CmdLen - 1) |->
     CASE i = 0 -> opc
       [] i \in 2..5 -> lba[6 - i]
       [] i = 7 -> cnt \div 256
       [] i = 8 -> cnt % 256
       [] OTHER -> 0]

Lbas == { U32(n) : n \in 0..MaxBlkNum } \cup
        { << 254, 255, 255, 255 >>, << 255, 255, 255, 255 >> }

BlkCnts == (0..MaxBlkCnt) \cup { 65535 }

\* the handlers of the other opcodes do not look at the rest of the buffer
PlainFields == { << 0, 0, 0, 0 >>, << 1, 0, 0, SenseSize >> }

Commands ==
  { CtrlCmd(opc, f) :
      opc \in { SCSI_CMD_INQUIRY, SCSI_CMD_REQUEST_SENSE }, f \in CtrlFields } \cup
  { CtrlCmd(opc, f) :
      opc \in (Opcodes \cup OtherOpcodes)
                 \ { SCSI_CMD_INQUIRY, SCSI_CMD_REQUEST_SENSE },
      f \in PlainFields } \cup
  { DataCmd(opc, lba, cnt) :
      opc \in { SCSI_CMD_READ_10, SCSI_CMD_WRITE_10 },
      lba \in Lbas, cnt \in BlkCnts }

NoCmd == [i \in 0..(CmdLen - 1) |-> 0]

\* values the byte of tmp that memcpy leaves unset can hold
GarbageBytes == { 0, 165 }

\* HAL_SUCCESS / HAL_FAILED of the block device; the transport moves the
\* whole block or is one byte short
BlkOutcomes == [dev : BOOLEAN, short : { 0, 1 }]

Envs(c) ==
  [garbage : IF c[0] = SCSI_CMD_REQUEST_SENSE THEN GarbageBytes ELSE { 0 },
   short : IF c[0] \in { SCSI_CMD_INQUIRY, SCSI_CMD_REQUEST_SENSE,
                         SCSI_CMD_READ_CAPACITY_10, SCSI_CMD_MODE_SENSE_6 }
           THEN 0..MaxShort ELSE { 0 },
   blk : IF c[0] \in { SCSI_CMD_READ_10, SCSI_CMD_WRITE_10 }
         THEN LET n == decode_data_request(c).blk_cnt
              IN  [1..(IF n <= MaxBlkCnt THEN n ELSE 0) -> BlkOutcomes]
         ELSE { << >> }]

(***************************************************************************)
(* State: the SCSITarget object, and the API call in progress as its       *)
(* caller sees it: op is "idle" between calls and the entry point's name   *)
(* once a call has run; for a dispatch, cmd is the command buffer, ret the *)
(* value scsiExecCmd returned and calls the transport and block-device     *)
(* calls it made, in order.  ub says that the dispatch went through the    *)
(* NULL configuration pointer: what the program does from there on is not  *)
(* defined, and the model stops.                                           *)
(***************************************************************************)
VARIABLES scsip, op, cmd, ret, calls, ub

vars == << scsip, op, cmd, ret, calls, ub >>

Init ==
  /\ scsip = scsiObjectInit
  /\ op = "idle"
  /\ cmd = NoCmd
  /\ ret = SCSI_SUCCESS
  /\ calls = << >>
  /\ ub = FALSE

Start(config) ==
  /\ op = "idle"
  /\ scsip' = scsiStart(scsip, config)
  /\ op' = "start"
  /\ UNCHANGED << cmd, ret, calls, ub >>

Stop ==
  /\ op = "idle"
  /\ scsip' = scsiStop(scsip)
  /\ op' = "stop"
  /\ UNCHANGED << cmd, ret, calls, ub >>

\* a dispatch whose behaviour is defined
ExecCmd(c) ==
  /\ op = "idle"
  /\ \E env \in Envs(c) :
       \E r \in { scsiExecCmd(scsip, c, env) } :
           /\ ~r.ub
           /\ scsip' = r.s
           /\ ret' = r.ret
           /\ calls' = r.calls
  /\ op' = "exec"
  /\ cmd' = c
  /\ ub' = FALSE

\* a dispatch that dereferences the NULL configuration of a stopped engine:
\* it may trap, or return anything and leave any residue
ExecCmdNull(c) ==
  /\ op = "idle"
  /\ scsip.config = NULL
  /\ \E env \in Envs(c) :
       \E r \in { scsiExecCmd(scsip, c, env) } :
           /\ r.ub
           /\ \E g \in 0..MaxShort : scsip' = [r.s EXCEPT !.residue = g]
  /\ ret' \in { SCSI_SUCCESS, SCSI_FAILED }
  /\ calls' = << >>
  /\ op' = "exec"
  /\ cmd' = c
  /\ ub' = TRUE

\* the caller has taken the result of the call and is ready for the next one
Return ==
  /\ op # "idle"
  /\ ~ub
  /\ op' = "idle"
  /\ cmd' = NoCmd
  /\ ret' = SCSI_SUCCESS
  /\ calls' = << >>
  /\ UNCHANGED << scsip, ub >>

Next ==
  \/ \E config \in Configs : Start(config)
  \/ Stop
  \/ \E c \in Commands : ExecCmd(c)
  \/ \E c \in Commands : ExecCmdNull(c)
  \/ Return

Spec == Init /\ [][Next]_vars

(***************************************************************************)
(* Vocabulary of the properties.                                           *)
(***************************************************************************)
\* (key, code, qualifier) of a sense structure
SenseTriple(sense) == << sense[2], sense[12], sense[13] >>

SenseGood ==
  << SCSI_SENSE_KEY_GOOD, SCSI_ASENSE_NO_ADDITIONAL_INFORMATION,
     SCSI_ASENSEQ_NO_QUALIFIER >>
SenseInvalidField ==
  << SCSI_SENSE_KEY_ILLEGAL_REQUEST, SCSI_ASENSE_INVALID_FIELD_IN_CDB,
     SCSI_ASENSEQ_NO_QUALIFIER >>
SenseInvalidCommand ==
  << SCSI_SENSE_KEY_ILLEGAL_REQUEST, SCSI_ASENSE_INVALID_COMMAND,
     SCSI_ASENSEQ_NO_QUALIFIER >>
SenseLbaOutOfRange ==
  << SCSI_SENSE_KEY_ILLEGAL_REQUEST, SCSI_ASENSE_LBA_OUT_OF_RANGE,
     SCSI_ASENSEQ_NO_QUALIFIER >>

\* a dispatch has just run, with a configuration bound wherever it needed one
Dispatched == op = "exec" /\ ~ub

IsDataCmd(c) == c[0] \in { SCSI_CMD_READ_10, SCSI_CMD_WRITE_10 }

\* the calls of a dispatch on the block device's read/write primitives, and
\* on the transport
DeviceCalls == { i \in 1..Len(calls) : calls[i].fn \in { "blkRead", "blkWrite" } }
TransportCalls == { i \in 1..Len(calls) : calls[i].fn \in { "transmit", "receive" } }

\* block count of the device bound to the engine
DeviceBlkNum == scsip.config[1].blkdev.blk_num

\* first_lba + blk_cnt > n as numbers, without the 32-bit wrap-around
SumExceeds(req, n) ==
  GtBytes(AddWide(req.first_lba, U32(req.blk_cnt)), U32(n) \o << 0 >>, 5)

\* a report-sense buffer with zero reserved bytes and the exact length
WellFormedRequestSense(c) ==
  /\ c[0] = SCSI_CMD_REQUEST_SENSE
  /\ c[1] = 0 /\ c[2] = 0 /\ c[3] = 0
  /\ c[4] = SenseSize

(***************************************************************************)
(* C1: every dispatch that returns failure leaves a sense condition other  *)
(* than success (key GOOD, no additional information, no qualifier).       *)
(* Refuted: INQUIRY with valid fields and a short transmit returns         *)
(* SCSI_FAILED while the sense is still the one set on entry.              *)
(***************************************************************************)
C1_FailureHasNonSuccessSense ==
  (Dispatched /\ ret = SCSI_FAILED) => SenseTriple(scsip.sense) # SenseGood

(***************************************************************************)
(* C2: when the engine holds the sense condition S of a command that       *)
(* failed, a well-formed report-sense command dispatched next transmits a  *)
(* sense payload whose key, code and qualifier are S (stated for a started *)
(* engine and for the payloads that are transmitted).  Refuted:            *)
(* scsiExecCmd resets the sense before request_sense reads it.             *)
(***************************************************************************)
C2_FailedSenseRetrievable ==
  [][ ( /\ op = "idle"
        /\ scsip.config # NULL
        /\ scsip.sense[0] = 112
        /\ SenseTriple(scsip.sense) # SenseGood
        /\ op' = "exec" /\ ~ub'
        /\ WellFormedRequestSense(cmd')
        /\ Len(calls') = 1 )
      => ( /\ calls'[1].fn = "transmit"
           /\ SenseTriple(calls'[1].arg) = SenseTriple(scsip.sense) ) ]_vars

(***************************************************************************)
(* C3: a read or write is rejected with illegal-request / LBA-out-of-range *)
(* exactly when first_lba + block_count, as a number, exceeds the device   *)
(* block count, also when that sum is above 2^32 - 1.  Refuted: the sum is *)
(* formed in 32 bits and wraps.                                            *)
(***************************************************************************)
C3_OverflowIffSumExceeds ==
  (Dispatched /\ IsDataCmd(cmd)) =>
    ( ( /\ ret = SCSI_FAILED
        /\ SenseTriple(scsip.sense) = SenseLbaOutOfRange )
      <=> SumExceeds(decode_data_request(cmd), DeviceBlkNum) )

(***************************************************************************)
(* C4: every block address a dispatch passes to blkRead or blkWrite is     *)
(* below the device block count.  Refuted through the wrap of C3.          *)
(***************************************************************************)
C4_AccessesWithinDevice ==
  Dispatched =>
    \A i \in DeviceCalls : Gt32(U32(DeviceBlkNum), calls[i].arg)

(***************************************************************************)
(* C5: a read or write that fails range validation returns failure and     *)
(* has made no block-device read/write call and no transport call.         *)
(***************************************************************************)
C5_RejectedBeforeAnyIO ==
  ( /\ Dispatched
    /\ IsDataCmd(cmd)
    /\ data_overflow(scsip, decode_data_request(cmd)).overflow )
  => (ret = SCSI_FAILED /\ calls = << >>)

\* READ(10) of 2 blocks at address 0 on a device of 1 block, rejected
C5_Witness ==
  /\ Dispatched
  /\ cmd = DataCmd(SCSI_CMD_READ_10, U32(0), 2)
  /\ DeviceBlkNum = 1
  /\ ret = SCSI_FAILED
  /\ calls = << >>

(***************************************************************************)
(* C6: after a read or write during which the transport moved fewer bytes  *)
(* than the block size for some block, scsiResidue is that shortfall, and  *)
(* not zero.  Refuted: the loop calls the transport directly and never     *)
(* stores a residue.                                                       *)
(***************************************************************************)
C6_ShortBlockSetsResidue ==
  ( /\ Dispatched
    /\ IsDataCmd(cmd)
    /\ \E i \in TransportCalls : calls[i].ret < calls[i].len )
  => ( /\ scsiResidue(scsip) # 0
       /\ \E i \in TransportCalls :
            scsiResidue(scsip) = calls[i].len - calls[i].ret )

(***************************************************************************)
(* C7: a dispatch of an opcode the dispatcher has no case for returns      *)
(* failure, leaves the sense illegal-request / invalid-command / no        *)
(* qualifier, and makes no block-device and no transport call, whatever    *)
(* sense and residue the engine held before.                               *)
(***************************************************************************)
C7_UnknownOpcodeRejected ==
  (op = "exec" /\ cmd[0] \notin Opcodes) =>
    ( /\ ~ub
      /\ ret = SCSI_FAILED
      /\ SenseTriple(scsip.sense) = SenseInvalidCommand
      /\ calls = << >> )

\* an unknown opcode dispatched to an engine that holds an earlier residue
C7_Witness ==
  /\ op = "exec"
  /\ cmd[0] = 255
  /\ scsiResidue(scsip) # 0
  /\ ret = SCSI_FAILED
  /\ SenseTriple(scsip.sense) = SenseInvalidCommand

(***************************************************************************)
(* C8: a report-sense command with a wrong allocation length or a non-zero *)
(* reserved byte fails with illegal-request / invalid-field and transmits  *)
(* nothing; one with the exact length and zero reserved bytes is never     *)
(* rejected as invalid-field and transmits the current sense structure     *)
(* byte for byte.  Refuted in its second half: the fourth byte of tmp is   *)
(* never written, and a well-formed command is rejected when it is not 0   *)
(* (stated for a started engine).                                          *)
(***************************************************************************)
C8_RequestSenseValidation ==
  (Dispatched /\ scsip.config # NULL /\ cmd[0] = SCSI_CMD_REQUEST_SENSE) =>
    IF WellFormedRequestSense(cmd)
    THEN /\ SenseTriple(scsip.sense) # SenseInvalidField
         /\ Len(calls) = 1
         /\ calls[1].fn = "transmit"
         /\ calls[1].arg = scsip.sense
         /\ calls[1].len = SenseSize
    ELSE /\ ret = SCSI_FAILED
         /\ SenseTriple(scsip.sense) = SenseInvalidField
         /\ calls = << >>

(***************************************************************************)
(* C9 as stated: INQUIRY with a checked bit of byte 1 set or byte 2        *)
(* non-zero fails with invalid-field and transmits nothing; with both zero *)
(* it succeeds and transmits the configured identification payload.        *)
(* Refuted: with both zero and a short transmit it returns failure.        *)
(***************************************************************************)
InquiryFieldsValid(c) == BitAnd(c[1], 3) = 0 /\ c[2] = 0

WrapperOpcodes ==
  { SCSI_CMD_INQUIRY, SCSI_CMD_REQUEST_SENSE, SCSI_CMD_READ_CAPACITY_10,
    SCSI_CMD_MODE_SENSE_6 }

C10_TransmitWrapper ==
  [][ ( /\ op = "idle"
        /\ op' = "exec" /\ ~ub'
        /\ cmd'[0] \in WrapperOpcodes
        /\ Len(calls') = 1 )
      => ( /\ calls'[1].fn = "transmit"
           /\ calls'[1].ret < calls'[1].len =>
                ( /\ scsip'.residue = calls'[1].len - calls'[1].ret
                  /\ scsip'.residue # 0
                  /\ ret' = SCSI_FAILED )
           /\ calls'[1].ret = calls'[1].len =>
                ( /\ scsip'.residue = scsip.residue
                  /\ ret' = SCSI_SUCCESS )
           /\ SenseTriple(scsip'.sense) = SenseGood
           /\ scsip'.sense[0] = 112 ) ]_vars

\* a full transmit by an engine that still holds the residue of an earlier
\* short one
C10_Witness ==
  /\ Dispatched
  /\ cmd[0] \in WrapperOpcodes
  /\ Len(calls) = 1
  /\ calls[1].ret = calls[1].len
  /\ ret = SCSI_SUCCESS
  /\ scsiResidue(scsip) # 0

(***************************************************************************)
(* C11 as stated: a MODE SENSE(6) dispatch always returns success, for any *)
(* payload, prior state and transport behaviour, and the response it       *)
(* transmits has medium type 0, block-descriptor length 0 and a            *)
(* device-specific byte that is 0x80 when the device reports write-protect *)
(* and 0 otherwise.                                                        *)
(* Refuted: when the transport sends fewer than the four bytes, the        *)
(* handler returns the failure of the transmit wrapper.                    *)
(***************************************************************************)
ModeSenseResponse ==
  << ModeSenseSize - 1, 0,
     IF blkIsWriteProtected(scsip.config[1].blkdev) THEN 128 ELSE 0, 0 >>

BigEndian32(n) ==
  << (n \div 16777216) % 256, (n \div 65536) % 256, (n \div 256) % 256,
     n % 256 >>

C12_CapacityResponse ==
  (Dispatched /\ cmd[0] = SCSI_CMD_READ_CAPACITY_10) =>
    LET bdi == blkGetInfo(scsip.config[1].blkdev)
    IN  /\ Len(calls) = 1
        /\ calls[1].fn = "transmit"
        /\ calls[1].len = 8
        /\ Len(calls[1].arg) = 8
        /\ SubSeq(calls[1].arg, 1, 4) = BigEndian32(bdi.blk_num - 1)
        /\ SubSeq(calls[1].arg, 5, 8) = BigEndian32(bdi.blk_size)

\* the 512-byte, 1000-block device, asked with a non-zero payload: the
\* response is 999 (0x000003E7) and 512 (0x00000200)
C12_Witness ==
  /\ Dispatched
  /\ cmd[0] = SCSI_CMD_READ_CAPACITY_10
  /\ cmd[1] # 0
  /\ blkGetInfo(scsip.config[1].blkdev) = [blk_size |-> 512, blk_num |-> 1000]
  /\ Len(calls) = 1
  /\ calls[1].arg = << 0, 0, 3, 231, 0, 0, 2, 0 >>

(***************************************************************************)
(* The codec on its own: a READ(10)/WRITE(10) buffer is built from an      *)
(* address and a count, and decode_data_request is applied to it.  The     *)
(* call is logged with the buffer as argument and the decoded request as   *)
(* return value.                                                           *)
(***************************************************************************)
\* byte values the encoded addresses and counts are made of
CodecBytes == { 0, 1, 128, 255 }

CodecLbas == { << b1, b2, b3, b4 >> : b1, b2, b3, b4 \in CodecBytes }

CodecCnts == { 256 * hi + lo : hi, lo \in CodecBytes }

CodecInit ==
  /\ scsip = scsiObjectInit
  /\ op = "idle"
  /\ \E opc \in { SCSI_CMD_READ_10, SCSI_CMD_WRITE_10 } :
       \E lba \in CodecLbas : \E cnt \in CodecCnts :
         cmd = DataCmd(opc, lba, cnt)
  /\ ret = SCSI_SUCCESS
  /\ calls = << >>
  /\ ub = FALSE

Decode ==
  /\ op = "idle"
  /\ op' = "decode"
  /\ calls' = << Call("decode_data_request", cmd, CmdLen,
                      decode_data_request(cmd)) >>
  /\ UNCHANGED << scsip, cmd, ret, ub >>

CodecNext == Decode

CodecSpec == CodecInit /\ [][CodecNext]_vars

(***************************************************************************)
(* C13: an address and a count written most significant byte first at      *)
(* offsets 2..5 and 7..8 of a command buffer come back unchanged from      *)
(* decode_data_request: the decoded address is the number whose bytes,     *)
(* most significant first, are cmd[2..5], the decoded count is             *)
(* 256 * cmd[7] + cmd[8], and encoding the decoded request again gives the *)
(* same buffer.  swap_uint32 and swap_uint16 reverse the byte order and    *)
(* undo themselves.                                                        *)
(***************************************************************************)
C13_CodecRoundTrip ==
  op = "decode" =>
    LET req == calls[1].ret
        lba == req.first_lba
        cnt == req.blk_cnt
    IN  /\ lba = << cmd[5], cmd[4], cmd[3], cmd[2] >>
        /\ cnt = 256 * cmd[7] + cmd[8]
        /\ DataCmd(cmd[0], lba, cnt) = cmd
        /\ swap_uint32(lba) = << lba[4], lba[3], lba[2], lba[1] >>
        /\ swap_uint32(swap_uint32(lba)) = lba
        /\ swap_uint16(cnt) = 256 * (cnt % 256) + (cnt \div 256)
        /\ swap_uint16(swap_uint16(cnt)) = cnt

\* address 0x000180FF and count 0x0180: all bytes of the address differ
C13_Witness ==
  /\ op = "decode"
  /\ << cmd[2], cmd[3], cmd[4], cmd[5] >> = << 0, 1, 128, 255 >>
  /\ << cmd[7], cmd[8] >> = << 1, 128 >>
  /\ calls[1].ret = [first_lba |-> << 255, 128, 1, 0 >>, blk_cnt |-> 384]

(***************************************************************************)
(* C14: every dispatch that returns success leaves the sense structure at  *)
(* the success condition, whatever sense the engine held before; TEST UNIT *)
(* READY and PREVENT/ALLOW MEDIUM REMOVAL always return success with the   *)
(* success sense and call neither the block device nor the transport.      *)
(***************************************************************************)
IgnoredOpcodes ==
  { SCSI_CMD_TEST_UNIT_READY, SCSI_CMD_PREVENT_ALLOW_MEDIUM_REMOVAL }

C14_SuccessHasSuccessSense ==
  /\ (Dispatched /\ ret = SCSI_SUCCESS) =>
       /\ SenseTriple(scsip.sense) = SenseGood
       /\ scsip.sense = [ZeroSense EXCEPT ![0] = 112, ![7] = 8]
  /\ (op = "exec" /\ cmd[0] \in IgnoredOpcodes) =>
       /\ ~ub
       /\ ret = SCSI_SUCCESS
       /\ SenseTriple(scsip.sense) = SenseGood
       /\ calls = << >>

\* a successful transfer of a block, which sets no sense of its own, on an
\* engine that has seen a short wrapper transmit before
C14_Witness ==
  /\ Dispatched
  /\ IsDataCmd(cmd)
  /\ Len(calls) = 2
  /\ ret = SCSI_SUCCESS
  /\ scsiResidue(scsip) # 0
  /\ SenseTriple(scsip.sense) = SenseGood

(***************************************************************************)
(* C15: an accepted READ(10) of n blocks at address L makes exactly these  *)
(* calls, in this order: for i = 0, 1, ..., n - 1, blkRead of one block at *)
(* L + i and then a transport transmit of block-size bytes; an accepted    *)
(* WRITE(10) makes, for i = 0, 1, ..., n - 1, a transport receive of       *)
(* block-size bytes and then blkWrite of one block at L + i.  That is n    *)
(* block-device calls and n transport calls, alternating, and none at all  *)
(* for n = 0.  L + i is the uint32_t the block device is handed.           *)
(***************************************************************************)
\* the address and the count a READ(10)/WRITE(10) buffer carries
CmdLba(c) == << c[5], c[4], c[3], c[2] >>
CmdBlkCnt(c) == 256 * c[7] + c[8]

C15_TransferCallSequence ==
  (Dispatched /\ IsDataCmd(cmd) /\ ret = SCSI_SUCCESS) =>
    LET n == CmdBlkCnt(cmd)
        bs == blkGetInfo(scsip.config[1].blkdev).blk_size
        dev(i) == IF cmd[0] = SCSI_CMD_READ_10 THEN 2 * i + 1 ELSE 2 * i + 2
        trp(i) == IF cmd[0] = SCSI_CMD_READ_10 THEN 2 * i + 2 ELSE 2 * i + 1
    IN  /\ Len(calls) = 2 * n
        /\ Cardinality(DeviceCalls) = n
        /\ Cardinality(TransportCalls) = n
        /\ \A i \in 0..(n - 1) :
             /\ calls[dev(i)].fn =
                  (IF cmd[0] = SCSI_CMD_READ_10 THEN "blkRead" ELSE "blkWrite")
             /\ calls[dev(i)].arg = Add32(CmdLba(cmd), U32(i))
             /\ calls[dev(i)].len = 1
             /\ calls[trp(i)].fn =
                  (IF cmd[0] = SCSI_CMD_READ_10 THEN "transmit" ELSE "receive")
             /\ calls[trp(i)].len = bs

\* a write of two blocks at address 1: receive, blkWrite at 1, receive,
\* blkWrite at 2
C15_Witness ==
  /\ Dispatched
  /\ cmd[0] = SCSI_CMD_WRITE_10
  /\ CmdLba(cmd) = U32(1)
  /\ CmdBlkCnt(cmd) = 2
  /\ Len(calls) = 4
  /\ calls[1].fn = "receive"
  /\ calls[2].fn = "blkWrite" /\ calls[2].arg = U32(1)
  /\ calls[3].fn = "receive"
  /\ calls[4].fn = "blkWrite" /\ calls[4].arg = U32(2)

(***************************************************************************)
(* C16: a READ(10) or WRITE(10) whose range data_overflow accepts returns  *)
(* success and leaves the success sense, whatever blkRead/blkWrite and the *)
(* transport return for each block, and performs all its iterations: two   *)
(* calls per block of the count, also after a block-device failure or a    *)
(* short transfer.                                                         *)
(***************************************************************************)
C16_TransferNeverAborts ==
  (Dispatched /\ IsDataCmd(cmd)
     /\ ~data_overflow(scsip, decode_data_request(cmd)).overflow) =>
    /\ ret = SCSI_SUCCESS
    /\ SenseTriple(scsip.sense) = SenseGood
    /\ Len(calls) = 2 * CmdBlkCnt(cmd)

\* two blocks of which the first met a failing device and a short transport
C16_Witness ==
  /\ Dispatched
  /\ IsDataCmd(cmd)
  /\ CmdBlkCnt(cmd) = 2
  /\ Len(calls) = 4
  /\ calls[1].fn = "blkRead" /\ calls[1].ret
  /\ calls[2].ret < calls[2].len
  /\ ret = SCSI_SUCCESS
  /\ SenseTriple(scsip.sense) = SenseGood

(***************************************************************************)
(* C17: the residue is 0 after scsiObjectInit, and from then on a call of  *)
(* scsiStart, scsiStop or scsiExecCmd changes it only when it is a         *)
(* dispatch whose wrapper transmit was short, which stores that shortfall. *)
(* So scsiResidue always returns the shortfall of the most recent short    *)
(* wrapper transmit, or 0 when there has been none: a later successful     *)
(* command, a failing command that transmits nothing, start and stop leave *)
(* it as it was.                                                           *)
(***************************************************************************)
\* the step is a dispatch in which the wrapper's transmit was short
ShortWrapperTransmit ==
  /\ op = "idle"
  /\ op' = "exec"
  /\ cmd'[0] \in WrapperOpcodes
  /\ Len(calls') = 1
  /\ calls'[1].ret < calls'[1].len

C17_ResidueOnlyFromShortWrapper ==
  /\ scsiResidue(scsip) = 0
  /\ [][ ~ub' =>
           IF ShortWrapperTransmit
           THEN scsiResidue(scsip') = calls'[1].len - calls'[1].ret
           ELSE scsiResidue(scsip') = scsiResidue(scsip) ]_vars

\* a stopped engine still showing the residue of an earlier command
C17_Witness ==
  /\ op = "stop"
  /\ scsip.config = NULL
  /\ scsiResidue(scsip) # 0

(***************************************************************************)
(* C18: the sense structure is all zeros from scsiObjectInit until the     *)
(* first dispatch; a dispatch leaves it with byte 0 = 0x70, byte 7 = 8,    *)
(* every byte other than 0, 2, 7, 12 and 13 zero, and (key, code,          *)
(* qualifier) one of the four conditions success, invalid field, invalid   *)
(* command and LBA out of range; it keeps that form in every later state,  *)
(* and no call other than a dispatch changes it.                           *)
(***************************************************************************)
SenseConditions ==
  { SenseGood, SenseInvalidField, SenseInvalidCommand, SenseLbaOutOfRange }

SenseLayout(sense) ==
  /\ sense[0] = 112
  /\ sense[7] = 8
  /\ \A i \in (0..(SenseSize - 1)) \ { 0, 2, 7, 12, 13 } : sense[i] = 0
  /\ SenseTriple(sense) \in SenseConditions

C18_SenseLayout ==
  /\ scsip.sense = [i \in 0..(SenseSize - 1) |-> 0]
  /\ [][ /\ (op' = "exec" /\ ~ub') => SenseLayout(scsip'.sense)
         /\ SenseLayout(scsip.sense) => SenseLayout(scsip'.sense)
         /\ (op' # "exec") => scsip'.sense = scsip.sense ]_vars

\* an engine that was stopped and started again after a rejected transfer
\* still holds the LBA-out-of-range condition in the fixed layout
C18_Witness ==
  /\ op = "start"
  /\ SenseLayout(scsip.sense)
  /\ SenseTriple(scsip.sense) = SenseLbaOutOfRange

(***************************************************************************)
(* C19: in every state after scsiObjectInit, whatever calls of scsiStart   *)
(* (with a configuration), scsiStop and scsiExecCmd were made and in       *)
(* whatever order, the state is SCSI_TRGT_READY exactly when a             *)
(* configuration is bound and SCSI_TRGT_STOP exactly when none is.         *)
(* scsiObjectInit and every scsiStop end in SCSI_TRGT_STOP with no         *)
(* configuration; every scsiStart, also of an engine that is started       *)
(* already, ends in SCSI_TRGT_READY bound to the configuration it was      *)
(* given.                                                                  *)
(***************************************************************************)
C19_Lifecycle ==
  /\ scsip.state = SCSI_TRGT_STOP /\ scsip.config = NULL
  /\ [] /\ scsip.state \in { SCSI_TRGT_STOP, SCSI_TRGT_READY }
        /\ (scsip.state = SCSI_TRGT_READY) <=> (scsip.config # NULL)
        /\ (scsip.state = SCSI_TRGT_STOP) <=> (scsip.config = NULL)
        /\ (op = "stop") =>
             (scsip.state = SCSI_TRGT_STOP /\ scsip.config = NULL)
        /\ (op = "start") => (scsip.state = SCSI_TRGT_READY)
  /\ [][ \A config \in Configs :
           Start(config) =>
             /\ scsip'.config = << config >>
             /\ scsip'.state = SCSI_TRGT_READY ]_vars

\* a start of an engine that must have been started before, since it holds
\* the residue of a wrapper transmit, and that is now bound to the
\* 1000-block device
C19_Witness ==
  /\ op = "start"
  /\ scsip.state = SCSI_TRGT_READY
  /\ scsiResidue(scsip) # 0
  /\ scsip.config # NULL
  /\ scsip.config[1].blkdev.blk_num = ExampleBlkNum

(***************************************************************************)
(* C20: a dispatch leaves the lifecycle state and the bound configuration  *)
(* as they were, for every command buffer, and does not look at the state: *)
(* with the state field set to the other value and everything else equal,  *)
(* the same command in the same environment gives the same return value,   *)
(* sense, residue and collaborator calls.  A stopped engine is not turned  *)
(* away: commands that do not need the configuration run on it as on a     *)
(* started one.                                                            *)
(***************************************************************************)
OtherState(state) ==
  IF state = SCSI_TRGT_STOP THEN SCSI_TRGT_READY ELSE SCSI_TRGT_STOP

\* the engine with only its lifecycle state changed
WithOtherState(s) == [s EXCEPT !.state = OtherState(s.state)]

C20_DispatchIgnoresState ==
  /\ [][ (op' = "exec" /\ ~ub') =>
           /\ scsip'.state = scsip.state
           /\ scsip'.config = scsip.config ]_vars
  /\ [] ( op = "idle" =>
            \A c \in Commands : \A env \in Envs(c) :
              \A a \in { scsiExecCmd(scsip, c, env) } :
                \A b \in { scsiExecCmd(WithOtherState(scsip), c, env) } :
                  /\ b.ret = a.ret
                  /\ b.calls = a.calls
                  /\ b.ub = a.ub
                  /\ b.s = WithOtherState(a.s) )

\* a command dispatched on a stopped engine and carried out
C20_Witness ==
  /\ Dispatched
  /\ scsip.state = SCSI_TRGT_STOP
  /\ cmd[0] = SCSI_CMD_TEST_UNIT_READY
  /\ ret = SCSI_SUCCESS

====
